---- MODULE Spec2Model ----
(***************************************************************************)
(* GS1-128 Application Identifier parser of barcode.gs1.parser             *)
(* (models/gs1_parser.py).  Text is a sequence of code points; Python      *)
(* None is the empty tuple and a present value v is the 1-tuple <<v>>.     *)
(***************************************************************************)
EXTENDS Integers, Sequences, FiniteSets, TLC

VARIABLES
    barcode_in,   \* the argument of parse()
    barcode,      \* the local `barcode` after cleaning
    pos,          \* the scan cursor
    result,       \* the result dict under construction
    pc,           \* position in parse(): "call", "scan", "done"
    fn,           \* pure-function harness: which function is applied
    fn_arg,       \* pure-function harness: its argument
    fn_ret,       \* pure-function harness: its return value
    iters,        \* iterations of the scan loop of parse() completed
    records,      \* the committed product.barcode rows, by id
    txns          \* the open database transactions

vars == <<barcode_in, barcode, pos, result, pc, fn, fn_arg, fn_ret, iters, records, txns>>

----------------------------------------------------------------------------
(* Python primitives *)

None == <<>>
Some(v) == <<v>>

Min(a, b) == IF a < b THEN a ELSE b

\* s[a:b] for 0 <= a, 0 <= b
Slice(s, a, b) == SubSeq(s, a + 1, Min(b, Len(s)))

\* s.startswith(p)
StartsWith(s, p) == Len(s) >= Len(p) /\ SubSeq(s, 1, Len(p)) = p

\* the text of a digit string, e.g. Digits(<<0, 1>>) is "01"
Digits(ds) == [i \in 1..Len(ds) |-> 48 + ds[i]]

IsDigit(c) == c \in 48..57

\* str.isspace() code points below 256 (str.strip() removes these)
StrWhitespace == {9, 10, 11, 12, 13, 28, 29, 30, 31, 32, 133, 160}

\* the whitespace int() skips around an ASCII literal
IntWhitespace == {9, 10, 11, 12, 13, 32}

RECURSIVE LStrip(_, _)
LStrip(s, ws) == IF s # <<>> /\ Head(s) \in ws THEN LStrip(Tail(s), ws) ELSE s

RECURSIVE RStrip(_, _)
RStrip(s, ws) ==
    IF s # <<>> /\ s[Len(s)] \in ws THEN RStrip(SubSeq(s, 1, Len(s) - 1), ws) ELSE s

Strip(s, ws) == RStrip(LStrip(s, ws), ws)

\* s.find(c, from): 0-based index of the first c at or after from, else -1
RECURSIVE Find(_, _, _)
Find(s, c, from) ==
    IF from >= Len(s) THEN -1
    ELSE IF s[from + 1] = c THEN from
    ELSE Find(s, c, from + 1)

RECURSIVE DigitsValue(_)
DigitsValue(ds) ==
    IF ds = <<>> THEN 0
    ELSE 10 * DigitsValue(SubSeq(ds, 1, Len(ds) - 1)) + (ds[Len(ds)] - 48)

\* int(s) for an ASCII str: None stands for ValueError
PyInt(s) ==
    LET t == Strip(s, IntWhitespace)
        signed == t # <<>> /\ t[1] \in {43, 45}
        body == IF signed THEN Tail(t) ELSE t
        ok == /\ body # <<>>
              /\ IsDigit(body[1])
              /\ IsDigit(body[Len(body)])
              /\ \A i \in 1..Len(body) : IsDigit(body[i]) \/ body[i] = 95
              /\ \A i \in 1..(Len(body) - 1) : ~(body[i] = 95 /\ body[i + 1] = 95)
        n == DigitsValue(SelectSeq(body, IsDigit))
    IN IF ~ok THEN None
       ELSE IF signed /\ t[1] = 45 THEN Some(0 - n) ELSE Some(n)

RECURSIVE Pow10(_)
Pow10(d) == IF d = 0 THEN 1 ELSE 10 * Pow10(d - 1)

RECURSIVE GCD(_, _)
GCD(a, b) == IF b = 0 THEN a ELSE GCD(b, a % b)

Abs(n) == IF n < 0 THEN 0 - n ELSE n

\* the number n / d, as a fraction in lowest terms
Ratio(n, d) == LET g == GCD(Abs(n), d) IN [num |-> n \div g, den |-> d \div g]

----------------------------------------------------------------------------
(* The AI table *)

GS == 29
FNC1 == 232

Fixed(len, type) == [length |-> len, type |-> type]
Variable(max, type) == [length |-> 0, max_length |-> max, type |-> type]
Weight(type, dec) == [length |-> 6, type |-> type, decimal |-> dec]

\* 'length': None is modelled as length 0: the code only tests its truth
ProductIdentification ==
    (Digits(<<0, 1>>) :> Fixed(14, "gtin")) @@
    (Digits(<<0, 2>>) :> Fixed(14, "gtin_contained"))

LotAndSerial ==
    (Digits(<<1, 0>>) :> Variable(20, "lot")) @@
    (Digits(<<2, 1>>) :> Variable(20, "serial"))

Dates ==
    (Digits(<<1, 1>>) :> Fixed(6, "date")) @@
    (Digits(<<1, 3>>) :> Fixed(6, "date")) @@
    (Digits(<<1, 5>>) :> Fixed(6, "date")) @@
    (Digits(<<1, 7>>) :> Fixed(6, "date"))

Quantities ==
    (Digits(<<3, 0>>) :> Variable(8, "quantity")) @@
    (Digits(<<3, 7>>) :> Variable(8, "quantity"))

WeightsKg ==
    [c \in {Digits(<<3, 1, 0, d>>) : d \in 0..5} |-> Weight("weight_kg", c[4] - 48)]

WeightsLb ==
    [c \in {Digits(<<3, 2, 0, d>>) : d \in 0..5} |-> Weight("weight_lb", c[4] - 48)]

Location == Digits(<<4, 1, 4>>) :> Fixed(13, "location")

AdditionalIdentifiers ==
    (Digits(<<2, 4, 0>>) :> Variable(30, "additional_id")) @@
    (Digits(<<2, 4, 1>>) :> Variable(30, "customer_part")) @@
    (Digits(<<2, 5, 0>>) :> Variable(30, "secondary_serial")) @@
    (Digits(<<2, 5, 1>>) :> Variable(30, "ref_source"))

\* a table in which the undefined code '31' shadows the weight codes
AI_DEFINITIONS_Shadowed ==
    ProductIdentification @@ LotAndSerial @@ Dates @@ Quantities @@ WeightsKg @@
    WeightsLb @@ Location @@ AdditionalIdentifiers @@
    (Digits(<<3, 1>>) :> Variable(8, "quantity"))

AI_DEFINITIONS ==
    ProductIdentification @@ LotAndSerial @@ Dates @@ Quantities @@ WeightsKg @@
    WeightsLb @@ Location @@ AdditionalIdentifiers

\* ai_def.get('max_length', 30)
DefaultMaxLength == 30

MaxLengthOf(ai_def) ==
    IF "max_length" \in DOMAIN ai_def THEN ai_def.max_length ELSE DefaultMaxLength

\* ai_def.get('decimal', 0)
DecimalOf(ai_def) == IF "decimal" \in DOMAIN ai_def THEN ai_def.decimal ELSE 0

----------------------------------------------------------------------------
(* _extract_ai *)

NoAI(start_pos) == [ai |-> None, value |-> None, new_pos |-> start_pos]

\* a fixed-length branch without the length test: a truncated value is kept
ExtractFixed_Truncated(text, start_pos, potential_ai) ==
    LET remaining == Slice(text, start_pos, Len(text))
        value_start == Len(potential_ai)
        fixed_length == AI_DEFINITIONS[potential_ai].length
    IN [ai |-> potential_ai,
        value |-> Slice(remaining, value_start, value_start + fixed_length),
        new_pos |-> Min(start_pos + value_start + fixed_length, Len(text))]

\* the fixed-length branch
ExtractFixed(text, start_pos, potential_ai) ==
    LET remaining == Slice(text, start_pos, Len(text))
        value_start == Len(potential_ai)
        fixed_length == AI_DEFINITIONS[potential_ai].length
    IN IF Len(remaining) < value_start + fixed_length
       THEN NoAI(start_pos)
       ELSE [ai |-> potential_ai,
             value |-> Slice(remaining, value_start, value_start + fixed_length),
             new_pos |-> start_pos + value_start + fixed_length]

\* a variable-length branch that never steps over the separator
ExtractVariable_NoSkip(text, start_pos, potential_ai) ==
    LET remaining == Slice(text, start_pos, Len(text))
        value_start == Len(potential_ai)
        max_length == MaxLengthOf(AI_DEFINITIONS[potential_ai])
        found == Find(remaining, GS, value_start)
        value_end == IF found = -1
                     THEN Min(value_start + max_length, Len(remaining))
                     ELSE Min(found, value_start + max_length)
    IN [ai |-> potential_ai,
        value |-> Slice(remaining, value_start, value_end),
        new_pos |-> start_pos + value_end]

\* the variable-length branch
ExtractVariable(text, start_pos, potential_ai) ==
    LET remaining == Slice(text, start_pos, Len(text))
        value_start == Len(potential_ai)
        max_length == MaxLengthOf(AI_DEFINITIONS[potential_ai])
        found == Find(remaining, GS, value_start)
        value_end == IF found = -1
                     THEN Min(value_start + max_length, Len(remaining))
                     ELSE Min(found, value_start + max_length)
        end_pos == start_pos + value_end
    IN [ai |-> potential_ai,
        value |-> Slice(remaining, value_start, value_end),
        new_pos |-> IF end_pos < Len(text) /\ text[end_pos + 1] = GS
                    THEN end_pos + 1 ELSE end_pos]

\* a loop that never tries the 4-character prefix
AILengths_Short == <<3, 2>>

\* the candidate AI lengths, in the order the loop tries them
AILengths == <<4, 3, 2>>

RECURSIVE ExtractLoop(_, _, _)
ExtractLoop(text, start_pos, lens) ==
    IF lens = <<>> THEN NoAI(start_pos)
    ELSE LET remaining == Slice(text, start_pos, Len(text))
             ai_length == Head(lens)
             potential_ai == Slice(remaining, 0, ai_length)
         IN IF Len(remaining) < ai_length
            THEN ExtractLoop(text, start_pos, Tail(lens))
            ELSE IF potential_ai \in DOMAIN AI_DEFINITIONS
            THEN IF AI_DEFINITIONS[potential_ai].length # 0
                 THEN ExtractFixed(text, start_pos, potential_ai)
                 ELSE ExtractVariable(text, start_pos, potential_ai)
            ELSE ExtractLoop(text, start_pos, Tail(lens))

\* a cursor that is advanced by the length of the value alone
extract_ai_ValueOnly(text, start_pos) ==
    LET e == ExtractLoop(text, start_pos, AILengths)
    IN IF e.ai = None THEN e ELSE [e EXCEPT !.new_pos = @ - Len(e.ai)]

extract_ai(text, start_pos) == ExtractLoop(text, start_pos, AILengths)

----------------------------------------------------------------------------
(* _parse_date and _parse_decimal *)

\* calendar.isleap
IsLeap(year) == year % 4 = 0 /\ (year % 100 # 0 \/ year % 400 = 0)

\* calendar.monthrange(year, month)[1], for 1 <= month <= 12
DaysInMonth(year, month) ==
    IF month = 2 THEN (IF IsLeap(year) THEN 29 ELSE 28)
    ELSE IF month \in {4, 6, 9, 11} THEN 30 ELSE 31

\* datetime(year, month, day): None stands for ValueError
MakeDate(year, month, day) ==
    IF /\ year \in 1..9999
       /\ month \in 1..12
       /\ day \in 1..DaysInMonth(year, month)
    THEN Some([year |-> year, month |-> month, day |-> day])
    ELSE None

parse_date(date_str) ==
    IF date_str = <<>> \/ Len(date_str) # 6 THEN None
    ELSE LET yy == PyInt(Slice(date_str, 0, 2))
             mm == PyInt(Slice(date_str, 2, 4))
             dd == PyInt(Slice(date_str, 4, 6))
         IN IF yy = None \/ mm = None \/ dd = None THEN None
            ELSE LET year == IF yy[1] < 50 THEN yy[1] + 2000 ELSE yy[1] + 1900
                     month == mm[1]
                 IN IF dd[1] = 0
                    THEN IF month = 12 THEN MakeDate(year, month, 31)
                         ELSE IF month \notin 1..12 THEN None  \* IllegalMonthError
                         ELSE MakeDate(year, month, DaysInMonth(year, month))
                    ELSE MakeDate(year, month, dd[1])

\* the float value / 10 ** decimal_places is kept as the exact fraction
parse_decimal(value_str, decimal_places) ==
    IF value_str = <<>> THEN None
    ELSE LET v == PyInt(value_str)
         IN IF v = None THEN None
            ELSE IF decimal_places > 0 THEN Some(Ratio(v[1], Pow10(decimal_places)))
            ELSE Some(Ratio(v[1], 1))

----------------------------------------------------------------------------
(* parse *)

EmptyResult ==
    [gtin |-> None, lot |-> None, serial |-> None, expiry |-> None,
     expiry_str |-> None, production_date |-> None, best_before |-> None,
     weight_kg |-> None, weight_lb |-> None, quantity |-> None,
     location |-> None, raw_ais |-> <<>>, is_gs1 |-> FALSE]

\* raw_ais is an insertion-ordered dict: a sequence of [ai, value] entries
DictKeys(d) == {d[i].ai : i \in 1..Len(d)}

DictGet(d, k) == LET i == CHOOSE j \in 1..Len(d) : d[j].ai = k IN d[i].value

\* d[k] = v: an existing key keeps its place
DictSet(d, k, v) ==
    IF k \in DictKeys(d)
    THEN [i \in 1..Len(d) |-> IF d[i].ai = k THEN [ai |-> k, value |-> v] ELSE d[i]]
    ELSE Append(d, [ai |-> k, value |-> v])

NotFNC1(c) == c # FNC1

SymbologyC1 == <<93, 67, 49>>    \* ']C1'
SymbologyE0 == <<93, 101, 48>>   \* ']e0'

\* barcode.replace(FNC1, '').strip(), then one symbology identifier removed
Clean(text) ==
    LET s == Strip(SelectSeq(text, NotFNC1), StrWhitespace)
    IN IF StartsWith(s, SymbologyC1) THEN Slice(s, 3, Len(s))
       ELSE IF StartsWith(s, SymbologyE0) THEN Slice(s, 3, Len(s))
       ELSE s

\* the quantity branch: int(value), and `pass` on ValueError
SetQuantity(res, value) ==
    LET q == PyInt(value)
    IN IF q = None THEN res ELSE [res EXCEPT !.quantity = q]

\* the date branch
SetDate(res, ai, value) ==
    LET date_obj == parse_date(value)
    IN IF ai = Digits(<<1, 7>>)
       THEN [res EXCEPT !.expiry = date_obj, !.expiry_str = Some(value)]
       ELSE IF ai = Digits(<<1, 1>>) THEN [res EXCEPT !.production_date = date_obj]
       ELSE IF ai = Digits(<<1, 5>>) THEN [res EXCEPT !.best_before = date_obj]
       ELSE res

\* "Map parsed values to result fields"
MapField(res, ai, value) ==
    LET ai_def == AI_DEFINITIONS[ai]
        ai_type == ai_def.type
    IN CASE ai_type = "gtin" -> [res EXCEPT !.gtin = Some(value)]
         [] ai_type = "lot" -> [res EXCEPT !.lot = Some(value)]
         [] ai_type = "serial" -> [res EXCEPT !.serial = Some(value)]
         [] ai_type = "date" -> SetDate(res, ai, value)
         [] ai_type = "weight_kg" ->
                [res EXCEPT !.weight_kg = parse_decimal(value, DecimalOf(ai_def))]
         [] ai_type = "weight_lb" ->
                [res EXCEPT !.weight_lb = parse_decimal(value, DecimalOf(ai_def))]
         [] ai_type = "quantity" -> SetQuantity(res, value)
         [] ai_type = "location" -> [res EXCEPT !.location = Some(value)]
         [] OTHER -> res

\* a Record that forgets is_gs1 = True
Record_NoFlag(res, ai, value) ==
    MapField([res EXCEPT !.raw_ais = DictSet(res.raw_ais, ai, value)], ai, value)

\* one decoded AI: raw_ais[ai] = value, is_gs1 = True, then the field
Record(res, ai, value) ==
    MapField([res EXCEPT !.raw_ais = DictSet(res.raw_ais, ai, value),
                         !.is_gs1 = TRUE], ai, value)

----------------------------------------------------------------------------
(* Inputs *)

MaxFrags == 3

\* scanner output is put together from these pieces: symbology identifiers,
\* control characters, AI codes, values, and a separator followed by a
\* quantity AI with the value 'A'
Fragments ==
    { SymbologyC1, SymbologyE0, <<FNC1>>, <<GS>>, <<32>>, <<65>>,
      Digits(<<0, 1>>), Digits(<<1, 7>>), Digits(<<3, 0>>), Digits(<<1, 0>>),
      Digits(<<2, 4, 0>>), Digits(<<3, 1, 0, 2>>),
      Digits(<<2, 0, 0, 2, 0, 0>>), Digits(<<1, 2, 3, 4, 5, 6, 7, 8>>),
      <<GS>> \o Digits(<<3, 0>>) \o <<65>> }

RECURSIVE Flatten(_)
Flatten(fs) == IF fs = <<>> THEN <<>> ELSE Head(fs) \o Flatten(Tail(fs))

----------------------------------------------------------------------------
(* The state machine of one parse() call *)

Init ==
    /\ \E k \in 0..MaxFrags : \E fs \in [1..k -> Fragments] : barcode_in = Flatten(fs)
    /\ barcode = <<>>
    /\ pos = 0
    /\ result = EmptyResult
    /\ pc = "call"
    /\ iters = 0
    /\ records = <<>>
    /\ txns = <<>>
    /\ fn = "parse"
    /\ fn_arg = None
    /\ fn_ret = None

\* `if not barcode: return result`
ParseEmpty ==
    /\ pc = "call"
    /\ fn = "parse"
    /\ barcode_in = <<>>
    /\ pc' = "done"
    /\ UNCHANGED <<barcode_in, barcode, pos, result, fn, fn_arg, fn_ret, iters, records, txns>>

\* cleaning, and `pos = 0`
ParseClean ==
    /\ pc = "call"
    /\ fn = "parse"
    /\ barcode_in # <<>>
    /\ barcode' = Clean(barcode_in)
    /\ pos' = 0
    /\ pc' = "scan"
    /\ UNCHANGED <<barcode_in, result, fn, fn_arg, fn_ret, iters, records, txns>>

\* a loop iteration that gives up when the value does not decode
ScanDecode_Abort ==
    /\ pc = "scan"
    /\ pos < Len(barcode)
    /\ LET e == extract_ai(barcode, pos)
           t == AI_DEFINITIONS[e.ai].type
           bad == \/ t = "date" /\ parse_date(e.value) = None
                  \/ t \in {"weight_kg", "weight_lb", "quantity"} /\ PyInt(e.value) = None
       IN /\ e.ai # None
          /\ IF bad
             THEN pc' = "done" /\ UNCHANGED <<result, pos, iters>>
             ELSE /\ result' = Record(result, e.ai, e.value)
                  /\ pos' = e.new_pos
                  /\ iters' = iters + 1
                  /\ pc' = pc
    /\ UNCHANGED <<barcode_in, barcode, fn, fn_arg, fn_ret, records, txns>>

\* a loop iteration that decodes an AI
ScanDecode ==
    /\ pc = "scan"
    /\ pos < Len(barcode)
    /\ LET e == extract_ai(barcode, pos)
       IN /\ e.ai # None
          /\ result' = Record(result, e.ai, e.value)
          /\ pos' = e.new_pos
          /\ iters' = iters + 1
    /\ UNCHANGED <<barcode_in, barcode, pc, fn, fn_arg, fn_ret, records, txns>>

\* a loop iteration that finds no AI: `break`
ScanBreak ==
    /\ pc = "scan"
    /\ pos < Len(barcode)
    /\ extract_ai(barcode, pos).ai = None
    /\ pc' = "done"
    /\ UNCHANGED <<barcode_in, barcode, pos, result, fn, fn_arg, fn_ret, iters, records, txns>>

\* the loop condition fails: `return result`
ScanExhausted ==
    /\ pc = "scan"
    /\ pos >= Len(barcode)
    /\ pc' = "done"
    /\ UNCHANGED <<barcode_in, barcode, pos, result, fn, fn_arg, fn_ret, iters, records, txns>>

Next == ParseEmpty \/ ParseClean \/ ScanDecode \/ ScanBreak \/ ScanExhausted

Spec == Init /\ [][Next]_vars

TypeOK ==
    /\ pc \in {"call", "scan", "done"}
    /\ pos \in 0..Len(barcode)
    /\ result.is_gs1 \in BOOLEAN

----------------------------------------------------------------------------
(* _parse_date and _parse_decimal applied on their own *)

Pairs(chars) == {<<a, b>> : a \in chars, b \in chars}

\* '+' 43, '-' 45, ' ' 32, 'A' 65, '_' 95
DateYears ==
    {Digits(<<0, 0>>), Digits(<<1, 7>>), Digits(<<2, 0>>), Digits(<<4, 9>>),
     Digits(<<5, 0>>), Digits(<<9, 9>>), <<43, 49>>, <<32, 49>>, <<45, 49>>, <<65, 49>>}

DateMonths == Pairs({48, 49, 50, 51, 43, 32, 65})

DateDays == Pairs({48, 49, 50, 51, 56, 57, 43, 32, 65})

DateStrs == {y \o m \o d : y \in DateYears, m \in DateMonths, d \in DateDays}

DecimalLeads ==
    {Digits(<<0, 0>>), Digits(<<1, 2>>), <<43, 48>>, <<32, 48>>, <<45, 48>>,
     <<65, 48>>, <<48, 95>>, <<48, 43>>}

DecimalMids == {Digits(<<1, 2>>), Digits(<<0, 0>>), <<57, 32>>, <<49, 95>>, <<95, 95>>}

DecimalTails == Pairs({48, 51, 52, 32, 65})

DecimalStrs == {l \o m \o t : l \in DecimalLeads, m \in DecimalMids, t \in DecimalTails}

DecimalPlaces == 0..5

InitPure ==
    /\ \/ /\ fn = "parse_date"
          /\ fn_arg \in {[str |-> v, dec |-> 0] : v \in DateStrs}
       \/ /\ fn = "parse_decimal"
          /\ fn_arg \in {[str |-> v, dec |-> d] : v \in DecimalStrs, d \in DecimalPlaces}
    /\ fn_ret = None
    /\ pc = "call"
    /\ iters = 0
    /\ records = <<>>
    /\ txns = <<>>
    /\ barcode_in = <<>>
    /\ barcode = <<>>
    /\ pos = 0
    /\ result = EmptyResult

CallParseDate ==
    /\ pc = "call"
    /\ fn = "parse_date"
    /\ fn_ret' = parse_date(fn_arg.str)
    /\ pc' = "done"
    /\ UNCHANGED <<barcode_in, barcode, pos, result, fn, fn_arg, iters, records, txns>>

CallParseDecimal ==
    /\ pc = "call"
    /\ fn = "parse_decimal"
    /\ fn_ret' = parse_decimal(fn_arg.str, fn_arg.dec)
    /\ pc' = "done"
    /\ UNCHANGED <<barcode_in, barcode, pos, result, fn, fn_arg, iters, records, txns>>

NextPure == CallParseDate \/ CallParseDecimal

SpecPure == InitPure /\ [][NextPure]_vars

----------------------------------------------------------------------------
(* Reference definitions for the properties, written from the input text *)

\* the defined AI codes that are a prefix of the text at p
Candidates(text, p) ==
    {c \in DOMAIN AI_DEFINITIONS : StartsWith(Slice(text, p, Len(text)), c)}

LongestOf(cs) == CHOOSE c \in cs : \A d \in cs : Len(d) <= Len(c)

\* the loop is about to run an iteration
AtScan == pc = "scan" /\ pos < Len(barcode)

\* the AI code at the cursor, when there is one
Matched == LongestOf(Candidates(barcode, pos))

IsFixed(c) == AI_DEFINITIONS[c].length # 0

\* the 0-based index of the first GS at or after p, or Len(text) when none
FirstGS(text, p) ==
    IF \E i \in p..(Len(text) - 1) : text[i + 1] = GS
    THEN CHOOSE i \in p..(Len(text) - 1) :
             text[i + 1] = GS /\ \A j \in p..(i - 1) : text[j + 1] # GS
    ELSE Len(text)

ScalarsEmpty(res) ==
    /\ res.gtin = None /\ res.lot = None /\ res.serial = None
    /\ res.expiry = None /\ res.expiry_str = None /\ res.production_date = None
    /\ res.best_before = None /\ res.weight_kg = None /\ res.weight_lb = None
    /\ res.quantity = None /\ res.location = None

----------------------------------------------------------------------------
(* Properties *)

\* C1: is_gs1 is true exactly when raw_ais is non-empty, and an input whose
\* cleaned text does not begin with an AI code of the table returns
\* is_gs1 = False, an empty raw_ais and every scalar field empty.
C1_RecognizedIffDecoded ==
    /\ result.is_gs1 <=> result.raw_ais # <<>>
    /\ (fn = "parse" /\ pc = "done" /\ Candidates(Clean(barcode_in), 0) = {}) =>
           /\ result.is_gs1 = FALSE
           /\ result.raw_ais = <<>>
           /\ ScalarsEmpty(result)

\* a non-empty cleaned text without an AI code at its start was parsed
C1_Witness ==
    /\ pc = "done"
    /\ Clean(barcode_in) # <<>>
    /\ Candidates(Clean(barcode_in), 0) = {}
    /\ \E i \in 1..Len(barcode_in) : IsDigit(barcode_in[i])

\* C2: a fixed-length AI at the cursor takes exactly the next `length`
\* characters and moves the cursor just after them; when fewer remain the
\* iteration records nothing, leaves the cursor, and ends the scan with the
\* result accumulated so far.
C2_FixedLength ==
    [][(AtScan /\ Candidates(barcode, pos) # {} /\ IsFixed(Matched)) =>
          LET c == Matched
              from == pos + Len(c)
              to == from + AI_DEFINITIONS[c].length
          IN IF to <= Len(barcode)
             THEN /\ pc' = "scan"
                  /\ pos' = to
                  /\ c \in DictKeys(result'.raw_ais)
                  /\ DictGet(result'.raw_ais, c) = SubSeq(barcode, from + 1, to)
             ELSE /\ pc' = "done"
                  /\ pos' = pos
                  /\ result' = result]_vars

\* a scan ended on a truncated fixed-length AI after other AIs were decoded
C2_Witness ==
    /\ pc = "done"
    /\ result.is_gs1
    /\ pos < Len(barcode)
    /\ Candidates(barcode, pos) # {}
    /\ IsFixed(Matched)
    /\ pos + Len(Matched) + AI_DEFINITIONS[Matched].length > Len(barcode)

\* C3: _extract_ai uses the longest of the 4-, 3- and 2-character prefixes
\* that is defined; it returns no AI only when none is defined or the
\* longest one is a truncated fixed-length AI, and then the scan stops with
\* the accumulated result.
C3_LongestPrefix ==
    [][AtScan =>
          LET e == extract_ai(barcode, pos)
              cands == {c \in Candidates(barcode, pos) : Len(c) \in {2, 3, 4}}
          IN IF cands = {}
             THEN e.ai = None /\ pc' = "done" /\ result' = result
             ELSE LET c == LongestOf(cands)
                  IN IF IsFixed(c) /\ pos + Len(c) + AI_DEFINITIONS[c].length > Len(barcode)
                     THEN e.ai = None /\ pc' = "done" /\ result' = result
                     ELSE /\ e.ai = c
                          /\ pc' = "scan"
                          /\ c \in DictKeys(result'.raw_ais)
                          /\ pos' >= pos + Len(c)]_vars

\* a 4-character AI and a 3-character AI were both decoded
C3_Witness ==
    /\ \E k \in DictKeys(result.raw_ais) : Len(k) = 4
    /\ \E k \in DictKeys(result.raw_ais) : Len(k) = 3

\* C4: no defined AI code is a proper prefix of another, so at most one
\* defined code is a prefix of the text at the cursor; every code is 2 to 4
\* digits and has a fixed length or a max_length.
C4_PrefixSafe ==
    /\ \A c \in DOMAIN AI_DEFINITIONS : \A n \in 1..(Len(c) - 1) :
           SubSeq(c, 1, n) \notin DOMAIN AI_DEFINITIONS
    /\ \A c \in DOMAIN AI_DEFINITIONS :
           /\ Len(c) \in 2..4
           /\ \A i \in 1..Len(c) : IsDigit(c[i])
           /\ AI_DEFINITIONS[c].length > 0 \/ "max_length" \in DOMAIN AI_DEFINITIONS[c]
    /\ AtScan => Cardinality(Candidates(barcode, pos)) <= 1
    /\ (AtScan /\ extract_ai(barcode, pos).ai # None) =>
           Candidates(barcode, pos) = {extract_ai(barcode, pos).ai}

\* the cursor stands on a 4-character AI whose 2-character prefix is undefined
C4_Witness ==
    /\ AtScan
    /\ \E c \in Candidates(barcode, pos) : Len(c) = 4

----------------------------------------------------------------------------
(* Where the value of the AI code c at cursor p ends, from the text alone *)

\* the first GS at or after the value's start lies within max_length characters
SeparatorEnds(text, p, c) ==
    LET from == p + Len(c)
        g == FirstGS(text, from)
    IN g < Len(text) /\ g - from <= AI_DEFINITIONS[c].max_length

\* 0-based index just after the value
ValueEnd(text, p, c) ==
    LET from == p + Len(c)
    IN IF IsFixed(c) THEN from + AI_DEFINITIONS[c].length
       ELSE Min(FirstGS(text, from), Min(from + AI_DEFINITIONS[c].max_length, Len(text)))

ValueAt(text, p, c) == SubSeq(text, p + Len(c) + 1, ValueEnd(text, p, c))

\* the AI at p is complete: not a fixed-length AI cut short by the end of text
Complete(text, p, c) == ValueEnd(text, p, c) <= Len(text)

CursorAfter(text, p, c) ==
    IF ~IsFixed(c) /\ SeparatorEnds(text, p, c)
    THEN ValueEnd(text, p, c) + 1
    ELSE ValueEnd(text, p, c)

\* the loop is about to decode a complete AI
AtAI == AtScan /\ Candidates(barcode, pos) # {} /\ Complete(barcode, pos, Matched)

\* C5 as stated: the value of a variable-length AI runs to the first GS or to
\* max_length characters, whichever comes first, holds no GS and at most
\* max_length characters; the cursor steps over a GS only when the GS came
\* before max_length characters were consumed, and a value that ended with
\* max_length characters consumed leaves the cursor at the length boundary.
C5_Original ==
    [][(AtAI /\ ~IsFixed(Matched)) =>
          LET c == Matched
              from == pos + Len(c)
              max == AI_DEFINITIONS[c].max_length
              g == FirstGS(barcode, from)
              v == ValueAt(barcode, pos, c)
          IN /\ pc' = "scan"
             /\ DictGet(result'.raw_ais, c) = v
             /\ Len(v) <= max
             /\ \A i \in 1..Len(v) : v[i] # GS
             /\ pos' = IF g < Len(barcode) /\ g - from < max
                       THEN g + 1
                       ELSE Min(from + max, Len(barcode))]_vars

\* C5 as amended: as C5_Original, but the cursor steps over a GS standing
\* where the value ended, also when the value has max_length characters.
C5_VariableLength ==
    [][(AtAI /\ ~IsFixed(Matched)) =>
          LET c == Matched
              from == pos + Len(c)
              max == AI_DEFINITIONS[c].max_length
              g == FirstGS(barcode, from)
              v == ValueAt(barcode, pos, c)
          IN /\ pc' = "scan"
             /\ DictGet(result'.raw_ais, c) = v
             /\ Len(v) <= max
             /\ \A i \in 1..Len(v) : v[i] # GS
             /\ v = SubSeq(barcode, from + 1, Min(g, Min(from + max, Len(barcode))))
             /\ pos' = IF g < Len(barcode) /\ g - from <= max
                       THEN g + 1
                       ELSE Min(from + max, Len(barcode))]_vars

\* a value of exactly max_length characters was decoded and the GS right
\* after it was stepped over
C5_Witness ==
    /\ Len(result.raw_ais) = 1
    /\ LET e == result.raw_ais[1]
       IN /\ ~IsFixed(e.ai)
          /\ Len(e.value) = AI_DEFINITIONS[e.ai].max_length
          /\ pos = Len(e.ai) + Len(e.value) + 1
          /\ barcode[pos] = GS
          /\ pos < Len(barcode)

----------------------------------------------------------------------------
(* Reference decoding of _parse_date and of a weight value *)

AllDigits(s) == \A i \in 1..Len(s) : IsDigit(s[i])

\* YYMMDD with the century pivot and day 00 as the last day of the month
ExpectedDate(s) ==
    IF ~AllDigits(s) THEN None
    ELSE LET yy == DigitsValue(SubSeq(s, 1, 2))
             mm == DigitsValue(SubSeq(s, 3, 4))
             dd == DigitsValue(SubSeq(s, 5, 6))
             year == IF yy < 50 THEN 2000 + yy ELSE 1900 + yy
         IN IF mm \notin 1..12 THEN None
            ELSE LET day == IF dd = 0 THEN DaysInMonth(year, mm) ELSE dd
                 IN IF day <= DaysInMonth(year, mm)
                    THEN Some([year |-> year, month |-> mm, day |-> day])
                    ELSE None

\* C6: _parse_date returns the calendar date of YYMMDD (year 2000+YY below
\* 50, else 1900+YY; day 00 is the last day of the month), and no date for
\* a value that is not a real date or has a non-digit character.
C6_ParseDate ==
    (fn = "parse_date" /\ pc = "done") => fn_ret = ExpectedDate(fn_arg.str)

\* the value of an AI that maps to a date, weight or quantity does not decode
Undecodable(c, v) ==
    LET d == AI_DEFINITIONS[c]
    IN \/ d.type = "date" /\ parse_date(v) = None
       \/ d.type \in {"weight_kg", "weight_lb"} /\ parse_decimal(v, DecimalOf(d)) = None
       \/ d.type = "quantity" /\ PyInt(v) = None

\* the scalar field of the result an AI code writes, "" when it writes none
ScalarOf(c) ==
    LET t == AI_DEFINITIONS[c].type
    IN IF t \in {"gtin", "lot", "serial", "weight_kg", "weight_lb", "quantity", "location"}
       THEN t
       ELSE IF c = Digits(<<1, 7>>) THEN "expiry"
       ELSE IF c = Digits(<<1, 1>>) THEN "production_date"
       ELSE IF c = Digits(<<1, 5>>) THEN "best_before"
       ELSE ""

ScalarNames ==
    {"gtin", "lot", "serial", "expiry", "production_date", "best_before",
     "weight_kg", "weight_lb", "quantity", "location"}

\* C7: an AI whose date, weight or quantity value does not decode is still
\* recorded in raw_ais with its raw value, is_gs1 is set, the scan goes on
\* from the position just after the value (and its separator), and no other
\* scalar field changes.
C7_UndecodableContinues ==
    [][(AtAI /\ Undecodable(Matched, ValueAt(barcode, pos, Matched))) =>
          LET c == Matched
          IN /\ pc' = "scan"
             /\ result'.is_gs1
             /\ c \in DictKeys(result'.raw_ais)
             /\ DictGet(result'.raw_ais, c) = ValueAt(barcode, pos, c)
             /\ pos' = CursorAfter(barcode, pos, c)
             /\ \A f \in ScalarNames \ {ScalarOf(c)} : result'[f] = result[f]]_vars

\* an AI with an undecodable value was recorded and the cursor stands on
\* the next AI
C7_Witness ==
    /\ AtAI
    /\ \E i \in 1..Len(result.raw_ais) :
           /\ result.raw_ais[i].value # <<>>
           /\ Undecodable(result.raw_ais[i].ai, result.raw_ais[i].value)
    /\ result.is_gs1

\* C8: whenever a quantity AI is decoded with a non-numeric value, the
\* quantity field is empty.
C8_QuantityEmpty ==
    [][(AtAI /\ AI_DEFINITIONS[Matched].type = "quantity"
             /\ PyInt(ValueAt(barcode, pos, Matched)) = None) =>
          result'.quantity = None]_vars

\* what the value v of the AI code c decodes to
Decoded(c, v) ==
    LET d == AI_DEFINITIONS[c]
    IN CASE d.type = "date" -> parse_date(v)
         [] d.type \in {"weight_kg", "weight_lb"} -> parse_decimal(v, DecimalOf(d))
         [] d.type = "quantity" -> PyInt(v)
         [] OTHER -> Some(v)

\* C9: when an AI code is decoded again, raw_ais holds the raw value of the
\* later occurrence and the scalar field of that AI holds the value decoded
\* from the later occurrence.
C9_LastWriteWins ==
    [][(AtAI /\ Matched \in DictKeys(result.raw_ais)) =>
          LET c == Matched
              v == ValueAt(barcode, pos, c)
          IN /\ DictGet(result'.raw_ais, c) = v
             /\ ScalarOf(c) # "" => result'[ScalarOf(c)] = Decoded(c, v)]_vars

\* C10: parse_decimal of a 6-character value v with d decimal places is the
\* integer denoted by v divided by 10^d, and nothing when v is not a string
\* of decimal digits.
C10_ParseDecimal ==
    (fn = "parse_decimal" /\ pc = "done") =>
        fn_ret = IF AllDigits(fn_arg.str)
                 THEN Some(Ratio(DigitsValue(fn_arg.str), Pow10(fn_arg.dec)))
                 ELSE None

----------------------------------------------------------------------------
(* product.barcode: the checksum validators and the format constraint *)
(* (models/product_barcode.py).  A validator returns "True" or "False";  *)
(* "ValueError" stands for the exception int() raises.                   *)

\* the code points c of the modelled alphabet with c.isdigit(): ASCII digits,
\* ARABIC-INDIC digits and SUPERSCRIPT TWO
DigitChars == (48..57) \cup (1632..1641) \cup {178}

\* the code points int() converts: the decimal digits
DecimalChars == (48..57) \cup (1632..1641)

\* int(d) of a decimal digit d
IntOfChar(c) == IF c \in 48..57 THEN c - 48 ELSE c - 1632

\* str.isdigit(): false for the empty string
StrIsDigit(s) == s # <<>> /\ \A i \in 1..Len(s) : s[i] \in DigitChars

\* the loop over enumerate(digits[:-1]), with the weights of even and odd i
RECURSIVE WeightedSum(_, _, _, _)
WeightedSum(digits, i, even_weight, odd_weight) ==
    IF i >= Len(digits) - 1 THEN 0
    ELSE (IF i % 2 = 0 THEN digits[i + 1] * even_weight ELSE digits[i + 1] * odd_weight)
         + WeightedSum(digits, i + 1, even_weight, odd_weight)

\* calculated_check == digits[-1]
CheckMatches(digits, even_weight, odd_weight) ==
    LET checksum == WeightedSum(digits, 0, even_weight, odd_weight)
        calculated_check == (10 - (checksum % 10)) % 10
    IN IF calculated_check = digits[Len(digits)] THEN "True" ELSE "False"

validate_ean_checksum(code) ==
    IF ~StrIsDigit(code) THEN "False"
    ELSE IF \E i \in 1..Len(code) : code[i] \notin DecimalChars THEN "ValueError"
    ELSE CheckMatches([i \in 1..Len(code) |-> IntOfChar(code[i])], 1, 3)

\* a UPC-A validator with the weights of the EAN validator
validate_upc_checksum_EANWeights(code) ==
    IF ~StrIsDigit(code) \/ Len(code) # 12 THEN "False"
    ELSE IF \E i \in 1..Len(code) : code[i] \notin DecimalChars THEN "ValueError"
    ELSE CheckMatches([i \in 1..Len(code) |-> IntOfChar(code[i])], 1, 3)

validate_upc_checksum(code) ==
    IF ~StrIsDigit(code) \/ Len(code) # 12 THEN "False"
    ELSE IF \E i \in 1..Len(code) : code[i] \notin DecimalChars THEN "ValueError"
    ELSE CheckMatches([i \in 1..Len(code) |-> IntOfChar(code[i])], 3, 1)

BarcodeTypes ==
    {"ean13", "ean8", "upca", "upce", "code128", "code39", "qr", "gs1_128", "internal"}

Accepted == [error |-> "none"]

\* raise ValidationError(_("<symbology> barcode must be exactly <n> digits: %s") % barcode)
DigitsError(symbology, code) ==
    [error |-> "ValidationError", about |-> "digits", symbology |-> symbology, value |-> code]

\* raise ValidationError(_("Invalid <symbology> checksum for barcode: %s") % barcode)
ChecksumError(symbology, code) ==
    [error |-> "ValidationError", about |-> "checksum", symbology |-> symbology, value |-> code]

\* an exception that is not a ValidationError
Uncaught(name) == [error |-> name]

\* one branch with a checksum: the length test, then the validator's answer
CheckWithChecksum(symbology, code, length, valid) ==
    IF ~StrIsDigit(code) \/ Len(code) # length THEN DigitsError(symbology, code)
    ELSE IF valid = "ValueError" THEN Uncaught("ValueError")
    ELSE IF valid = "False" THEN ChecksumError(symbology, code)
    ELSE Accepted

\* the body of the loop of _check_barcode_format for one record
check_barcode_format(name, barcode_type) ==
    IF name = <<>> THEN Accepted
    ELSE LET code == Strip(name, StrWhitespace)
         IN CASE barcode_type = "ean13" ->
                    CheckWithChecksum("EAN-13", code, 13, validate_ean_checksum(code))
              [] barcode_type = "ean8" ->
                    CheckWithChecksum("EAN-8", code, 8, validate_ean_checksum(code))
              [] barcode_type = "upca" ->
                    CheckWithChecksum("UPC-A", code, 12, validate_upc_checksum(code))
              [] barcode_type = "upce" ->
                    IF ~StrIsDigit(code) \/ Len(code) # 8
                    THEN DigitsError("UPC-E", code)
                    ELSE Accepted
              [] OTHER -> Accepted

----------------------------------------------------------------------------
(* The validators applied on their own *)

EAN13Sample == Digits(<<4, 0, 0, 6, 3, 8, 1, 3, 3, 3, 9, 3, 1>>)
UPCASample == Digits(<<0, 3, 6, 0, 0, 0, 2, 9, 1, 4, 5, 2>>)
EAN8Sample == Digits(<<9, 6, 3, 8, 5, 0, 7, 4>>)
Zeros13 == Digits(<<0, 0, 0, 0, 0, 0, 0, 0, 0, 0, 0, 0, 0>>)

CodeBases == {EAN13Sample, UPCASample, EAN8Sample, Zeros13}

\* digits, 'A', ' ', SUPERSCRIPT TWO, ARABIC-INDIC DIGIT ZERO and THREE
CodeChars == (48..57) \cup {65, 32, 178, 1632, 1635}

\* the bases, with one character replaced, cut short, or with one more
\* character in front or behind
CodeStrs ==
    UNION {
        {[b EXCEPT ![i] = c] : i \in 1..Len(b), c \in CodeChars}
        \cup {SubSeq(b, 1, k) : k \in 0..Len(b)}
        \cup {b \o <<c>> : c \in CodeChars}
        \cup {<<c>> \o b : c \in CodeChars}
      : b \in CodeBases }

InitChecksum ==
    /\ \/ /\ fn \in {"_validate_ean_checksum", "_validate_upc_checksum"}
          /\ fn_arg \in {[str |-> v, type |-> ""] : v \in CodeStrs}
       \/ /\ fn = "_check_barcode_format"
          /\ fn_arg \in {[str |-> v, type |-> t] : v \in CodeStrs, t \in BarcodeTypes}
    /\ fn_ret = None
    /\ pc = "call"
    /\ iters = 0
    /\ records = <<>>
    /\ txns = <<>>
    /\ barcode_in = <<>>
    /\ barcode = <<>>
    /\ pos = 0
    /\ result = EmptyResult

CallValidateEAN ==
    /\ pc = "call"
    /\ fn = "_validate_ean_checksum"
    /\ fn_ret' = validate_ean_checksum(fn_arg.str)
    /\ pc' = "done"
    /\ UNCHANGED <<barcode_in, barcode, pos, result, fn, fn_arg, iters, records, txns>>

CallValidateUPC ==
    /\ pc = "call"
    /\ fn = "_validate_upc_checksum"
    /\ fn_ret' = validate_upc_checksum(fn_arg.str)
    /\ pc' = "done"
    /\ UNCHANGED <<barcode_in, barcode, pos, result, fn, fn_arg, iters, records, txns>>

CallCheckFormat ==
    /\ pc = "call"
    /\ fn = "_check_barcode_format"
    /\ fn_ret' = check_barcode_format(fn_arg.str, fn_arg.type)
    /\ pc' = "done"
    /\ UNCHANGED <<barcode_in, barcode, pos, result, fn, fn_arg, iters, records, txns>>

NextChecksum == CallValidateEAN \/ CallValidateUPC \/ CallCheckFormat

SpecChecksum == InitChecksum /\ [][NextChecksum]_vars

----------------------------------------------------------------------------
(* Reference check digit, written from the positions *)

AllDecimal(s) == s # <<>> /\ \A i \in 1..Len(s) : s[i] \in DecimalChars

\* the sum of f over the 0-based positions in ps
RECURSIVE SumOver(_, _, _, _)
SumOver(s, ps, even_weight, odd_weight) ==
    IF ps = {} THEN 0
    ELSE LET p == CHOOSE q \in ps : TRUE
         IN IntOfChar(s[p + 1]) * (IF p % 2 = 0 THEN even_weight ELSE odd_weight)
            + SumOver(s, ps \ {p}, even_weight, odd_weight)

\* (10 - (S mod 10)) mod 10, S over all digits but the last
CheckDigit(s, even_weight, odd_weight) ==
    (10 - (SumOver(s, 0..(Len(s) - 2), even_weight, odd_weight) % 10)) % 10

LastDigit(s) == IntOfChar(s[Len(s)])

\* all digits, one of the lengths, and the last digit is the check digit
WellFormed(s, lengths, even_weight, odd_weight) ==
    /\ AllDecimal(s)
    /\ Len(s) \in lengths
    /\ LastDigit(s) = CheckDigit(s, even_weight, odd_weight)

\* C11: _validate_ean_checksum returns true exactly for an all-digit input of
\* 8 or 13 characters whose last digit is the check digit with weight 1 at
\* even and 3 at odd positions, and false for every other input.
C11_EANChecksum ==
    (fn = "_validate_ean_checksum" /\ pc = "done") =>
        fn_ret = IF WellFormed(fn_arg.str, {8, 13}, 1, 3) THEN "True" ELSE "False"

\* C12: _validate_upc_checksum returns true exactly for an all-digit input of
\* 12 characters whose last digit is the check digit with weight 3 at even
\* and 1 at odd positions; '036000291452' validates, and the EAN weights
\* give its first 11 digits another check digit.
C12_UPCChecksum ==
    /\ (fn = "_validate_upc_checksum" /\ pc = "done") =>
           (fn_ret = "True" <=> WellFormed(fn_arg.str, {12}, 3, 1))
    /\ validate_upc_checksum(UPCASample) = "True"
    /\ CheckDigit(UPCASample, 1, 3) # LastDigit(UPCASample)
    /\ validate_ean_checksum(UPCASample) = "False"

\* the UPC-A validator accepted a code other than the sample
C12_Witness ==
    /\ fn = "_validate_upc_checksum"
    /\ pc = "done"
    /\ fn_ret = "True"
    /\ fn_arg.str # UPCASample

SymbologyOf(barcode_type) ==
    CASE barcode_type = "ean13" -> "EAN-13"
      [] barcode_type = "ean8" -> "EAN-8"
      [] barcode_type = "upca" -> "UPC-A"
      [] barcode_type = "upce" -> "UPC-E"
      [] OTHER -> ""

\* the name is to be rejected for its type
Malformed(name, barcode_type) ==
    CASE barcode_type = "ean13" -> ~WellFormed(name, {13}, 1, 3)
      [] barcode_type = "ean8" -> ~WellFormed(name, {8}, 1, 3)
      [] barcode_type = "upca" -> ~WellFormed(name, {12}, 3, 1)
      [] barcode_type = "upce" -> ~(AllDecimal(name) /\ Len(name) = 8)
      [] OTHER -> FALSE

\* C13: a record with a non-empty name is rejected, with a validation
\* failure naming the symbology and the value, exactly when the name is
\* malformed for its type; UPC-E names of 8 digits and every other type are
\* accepted.
C13_FormatGate ==
    (fn = "_check_barcode_format" /\ pc = "done" /\ fn_arg.str # <<>>) =>
        IF Malformed(fn_arg.str, fn_arg.type)
        THEN /\ fn_ret.error = "ValidationError"
             /\ fn_ret.symbology = SymbologyOf(fn_arg.type)
             /\ fn_ret.value \in {fn_arg.str, Strip(fn_arg.str, StrWhitespace)}
        ELSE fn_ret = Accepted

----------------------------------------------------------------------------
(* Termination of parse() *)

\* C16: parse terminates. An iteration that does not stop the scan moves the
\* cursor forward by at least the length of the matched AI code, which is at
\* least 2, and never past the end of the cleaned text; the cursor never
\* moves back, so no character is consumed twice; the loop has run at most
\* len/2 times.
C16_Terminates ==
    [][/\ (pc = "scan" /\ pc' = "scan") =>
              /\ Candidates(barcode, pos) # {}
              /\ Len(Matched) >= 2
              /\ pos' >= pos + Len(Matched)
              /\ iters' = iters + 1
       /\ pos' >= pos
       /\ pos' <= Len(barcode')
       /\ 2 * iters' <= pos'
       /\ 2 * iters' <= Len(barcode')]_vars

\* a scan of several iterations has ended at the end of the text
C16_Witness ==
    /\ pc = "done"
    /\ iters >= 3
    /\ pos = Len(barcode)

----------------------------------------------------------------------------
(* parse as a function, is_gs1_barcode and format_for_display *)

\* the scan loop of parse(), from cursor p with the result res
RECURSIVE ScanLoop(_, _, _)
ScanLoop(text, p, res) ==
    IF p >= Len(text) THEN res
    ELSE LET e == extract_ai(text, p)
         IN IF e.ai = None THEN res
            ELSE ScanLoop(text, e.new_pos, Record(res, e.ai, e.value))

\* the dict parse(text) returns
parse(text) == IF text = <<>> THEN EmptyResult ELSE ScanLoop(Clean(text), 0, EmptyResult)

\* the state machine of parse() returns what the function returns
ParseAgrees == (fn = "parse" /\ pc = "done") => result = parse(barcode_in)

is_gs1_barcode(text) == parse(text).is_gs1

\* str(n) for a natural number
RECURSIVE NatStr(_)
NatStr(n) == IF n < 10 THEN <<48 + n>> ELSE NatStr(n \div 10) \o <<48 + (n % 10)>>

\* str(n) for an int
IntStr(n) == IF n < 0 THEN <<45>> \o NatStr(0 - n) ELSE NatStr(n)

\* s.rjust(width, '0')
RECURSIVE ZeroPad(_, _)
ZeroPad(s, width) == IF Len(s) >= width THEN s ELSE ZeroPad(<<48>> \o s, width)

\* the least k with den dividing 10 ** k
RECURSIVE DecimalsOf(_, _)
DecimalsOf(den, k) == IF Pow10(k) % den = 0 THEN k ELSE DecimalsOf(den, k + 1)

\* repr() of the float nearest to r.num / r.den, for a fraction of at most 15
\* significant digits below 10 ** 16: the shortest decimal that reads back
\* as the float, in exponent form below 0.0001
FloatRepr(r) ==
    LET k == DecimalsOf(r.den, 0)
        m == Abs(r.num) * (Pow10(k) \div r.den)
        sign == IF r.num < 0 THEN <<45>> ELSE <<>>
        mantissa == NatStr(m)
        exponent == k - (Len(mantissa) - 1)
    IN IF m # 0 /\ m * Pow10(4) < Pow10(k)
       THEN sign \o <<mantissa[1]>>
            \o (IF Len(mantissa) > 1 THEN <<46>> \o Tail(mantissa) ELSE <<>>)
            \o <<101, 45>> \o ZeroPad(NatStr(exponent), 2)
       ELSE IF k = 0 THEN sign \o mantissa \o <<46, 48>>
       ELSE sign \o NatStr(m \div Pow10(k)) \o <<46>> \o ZeroPad(NatStr(m % Pow10(k)), k)

\* date.strftime('%Y-%m-%d'), for a year of four digits
DateStr(d) ==
    NatStr(d.year) \o <<45>> \o ZeroPad(NatStr(d.month), 2)
    \o <<45>> \o ZeroPad(NatStr(d.day), 2)

LabelGTIN == <<71, 84, 73, 78, 58, 32>>                 \* 'GTIN: '
LabelLot == <<76, 111, 116, 58, 32>>                    \* 'Lot: '
LabelSerial == <<83, 101, 114, 105, 97, 108, 58, 32>>   \* 'Serial: '
LabelExpiry == <<69, 120, 112, 105, 114, 121, 58, 32>>  \* 'Expiry: '
LabelQty == <<81, 116, 121, 58, 32>>                    \* 'Qty: '
LabelWeight == <<87, 101, 105, 103, 104, 116, 58, 32>>  \* 'Weight: '
UnitKg == <<32, 107, 103>>                              \* ' kg'
Bar == <<32, 124, 32>>                                  \* ' | '

\* sep.join(parts)
RECURSIVE Join(_, _)
Join(parts, sep) ==
    IF parts = <<>> THEN <<>>
    ELSE IF Len(parts) = 1 THEN parts[1]
    ELSE parts[1] \o sep \o Join(Tail(parts), sep)

\* `if result.get(name)` for a str field: neither None nor ''
TruthyText(field) == field # None /\ field[1] # <<>>

\* the list `parts`
DisplayParts(res) ==
    (IF TruthyText(res.gtin) THEN <<LabelGTIN \o res.gtin[1]>> ELSE <<>>)
    \o (IF TruthyText(res.lot) THEN <<LabelLot \o res.lot[1]>> ELSE <<>>)
    \o (IF TruthyText(res.serial) THEN <<LabelSerial \o res.serial[1]>> ELSE <<>>)
    \o (IF res.expiry # None THEN <<LabelExpiry \o DateStr(res.expiry[1])>> ELSE <<>>)
    \o (IF res.quantity # None /\ res.quantity[1] # 0
        THEN <<LabelQty \o IntStr(res.quantity[1])>> ELSE <<>>)
    \o (IF res.weight_kg # None /\ res.weight_kg[1].num # 0
        THEN <<LabelWeight \o FloatRepr(res.weight_kg[1]) \o UnitKg>> ELSE <<>>)

\* the text returned for the input text and its parse result res
Display(text, res, parts) ==
    IF ~res.is_gs1 THEN text
    ELSE IF parts # <<>> THEN Join(parts, Bar) ELSE text

DisplayOf(text, res) == Display(text, res, DisplayParts(res))

format_for_display(text) == DisplayOf(text, parse(text))

MaxElements == 3

\* element strings: a GTIN, lots, a serial, expiry dates, quantities, weights,
\* an additional identifier, a letter and a symbology identifier
DisplayElements ==
    { Digits(<<0, 1, 0, 4, 0, 0, 6, 3, 8, 1, 3, 3, 3, 9, 3, 1>>),
      Digits(<<1, 0>>) \o <<65, GS>>,
      Digits(<<1, 0>>) \o <<GS>>,
      Digits(<<2, 1>>) \o <<66, GS>>,
      Digits(<<1, 7, 2, 5, 0, 2, 2, 8>>),
      Digits(<<1, 7, 2, 0, 0, 2, 0, 0>>),
      Digits(<<1, 7, 2, 5, 1, 3, 0, 1>>),
      Digits(<<3, 0, 1, 2>>) \o <<GS>>,
      Digits(<<3, 0, 0>>) \o <<GS>>,
      Digits(<<3, 0>>) \o <<65, GS>>,
      Digits(<<3, 1, 0, 2, 0, 0, 1, 2, 5, 0>>),
      Digits(<<3, 1, 0, 2, 0, 0, 0, 0, 0, 0>>),
      Digits(<<3, 1, 0, 5, 0, 0, 0, 0, 0, 7>>),
      Digits(<<3, 1, 0, 0, 0, 0, 0, 0, 4, 0>>),
      Digits(<<2, 4, 0>>) \o <<65, GS>>,
      <<65>>,
      SymbologyC1 }

InitDisplay ==
    /\ fn \in {"format_for_display", "is_gs1_barcode"}
    /\ \E k \in 0..MaxElements : \E es \in [1..k -> DisplayElements] :
           fn_arg = Flatten(es)
    /\ fn_ret = None
    /\ pc = "call"
    /\ iters = 0
    /\ records = <<>>
    /\ txns = <<>>
    /\ barcode_in = <<>>
    /\ barcode = <<>>
    /\ pos = 0
    /\ result = EmptyResult

CallFormatForDisplay ==
    /\ pc = "call"
    /\ fn = "format_for_display"
    /\ fn_ret' = Some(format_for_display(fn_arg))
    /\ pc' = "done"
    /\ UNCHANGED <<barcode_in, barcode, pos, result, fn, fn_arg, iters, records, txns>>

CallIsGS1Barcode ==
    /\ pc = "call"
    /\ fn = "is_gs1_barcode"
    /\ fn_ret' = Some(is_gs1_barcode(fn_arg))
    /\ pc' = "done"
    /\ UNCHANGED <<barcode_in, barcode, pos, result, fn, fn_arg, iters, records, txns>>

NextDisplay == CallFormatForDisplay \/ CallIsGS1Barcode

SpecDisplay == InitDisplay /\ [][NextDisplay]_vars

\* a field that parse populated: a text that is not empty, a date, a number
Populated(field) == field # None /\ field[1] # <<>>

\* the segments of the summary, one for each populated field
Segments(res) ==
    LET seg(label, field, text) == IF Populated(field) THEN <<label \o text>> ELSE <<>>
    IN seg(LabelGTIN, res.gtin, IF res.gtin = None THEN <<>> ELSE res.gtin[1])
       \o seg(LabelLot, res.lot, IF res.lot = None THEN <<>> ELSE res.lot[1])
       \o seg(LabelSerial, res.serial, IF res.serial = None THEN <<>> ELSE res.serial[1])
       \o seg(LabelExpiry, res.expiry,
              IF res.expiry = None THEN <<>> ELSE DateStr(res.expiry[1]))
       \o seg(LabelQty, res.quantity,
              IF res.quantity = None THEN <<>> ELSE IntStr(res.quantity[1]))
       \o seg(LabelWeight, res.weight_kg,
              IF res.weight_kg = None THEN <<>>
              ELSE FloatRepr(res.weight_kg[1]) \o UnitKg)

\* C15: format_for_display returns the text unchanged when parse does not
\* recognize it, and otherwise the ' | '-separated summary with one segment,
\* in the order GTIN, Lot, Serial, Expiry, Qty, Weight, for each field that
\* parse populated, a quantity or weight of zero included.
C15_DisplaySummary ==
    (fn = "format_for_display" /\ pc = "done") =>
        LET res == parse(fn_arg)
        IN fn_ret = Some(IF res.is_gs1 THEN Join(Segments(res), Bar) ELSE fn_arg)

----------------------------------------------------------------------------
(* product.product: find_by_barcode and find_by_barcode_with_info *)

\* company_id = False
NoCompany == 0

\* search(domain, limit=1) over rows kept in the order of the model: the
\* first of the ids the domain selects, or None for an empty recordset
SearchFirst(found) ==
    IF found = {} THEN None
    ELSE Some(CHOOSE i \in found : \A j \in found : i <= j)

\* '|', ('company_id', '=', False), ('company_id', '=', company_id)
CompanyVisible(row, company_id) == row.company_id \in {NoCompany, company_id}

\* the id of the product found, or None for the empty recordset
find_by_barcode(db, text, company_id) ==
    IF text = <<>> THEN None
    ELSE LET code == Strip(text, StrWhitespace)
             ByBarcode(p) == p.barcode = Some(code) /\ CompanyVisible(p, company_id)
             ByName(b) == b.name = code /\ b.active /\ CompanyVisible(b, company_id)
             ByReference(p) ==
                 p.default_code = Some(code) /\ CompanyVisible(p, company_id)
             product == SearchFirst({i \in 1..Len(db.products) : ByBarcode(db.products[i])})
             barcode_rec == SearchFirst({i \in 1..Len(db.barcodes) : ByName(db.barcodes[i])})
             referenced == SearchFirst({i \in 1..Len(db.products) : ByReference(db.products[i])})
         IN IF product # None THEN product
            ELSE IF barcode_rec # None THEN Some(db.barcodes[barcode_rec[1]].product_id)
            ELSE referenced

\* "Determine barcode type"; the search for the additional barcode leaves
\* archived rows out, as every search without an 'active' term does
MatchedType(db, product, code, before) ==
    LET p == db.products[product]
        OfProduct(b) == b.name = code /\ b.product_id = product /\ b.active
        barcode_rec == SearchFirst({i \in 1..Len(db.barcodes) : OfProduct(db.barcodes[i])})
    IN IF p.barcode = Some(code) THEN "primary"
       ELSE IF p.default_code = Some(code) THEN "internal"
       ELSE IF barcode_rec # None THEN db.barcodes[barcode_rec[1]].barcode_type
       ELSE before

\* the dict returned: gs1_data is kept as "parsed data is present"
Info(product, barcode_type, gs1, error) ==
    [product |-> product, barcode_type |-> barcode_type, gs1_data |-> gs1,
     error |-> error]

\* `if gs1_data.get('gtin')`: the GTIN to search by, or None
GtinOf(gs1_data) == IF TruthyText(gs1_data.gtin) THEN gs1_data.gtin ELSE None

\* "search by GTIN", then "Try without leading zeros"
FindByGtin(db, gtin, company_id) ==
    IF gtin = None THEN None
    ELSE LET product == find_by_barcode(db, gtin[1], company_id)
         IN IF product # None THEN product
            ELSE IF Len(gtin[1]) = 14 /\ StartsWith(gtin[1], <<48>>)
            THEN find_by_barcode(db, Tail(gtin[1]), company_id)
            ELSE None

\* "Standard barcode search"; `before` is barcode_type as set so far
StandardSearch(db, code, company_id, before, has_gtin) ==
    LET product == find_by_barcode(db, code, company_id)
    IN IF product # None
       THEN Info(product, MatchedType(db, product[1], code, before), has_gtin, "False")
       ELSE Info(None, before, has_gtin, "Product not found")

\* the lookups that follow `gs1_data = GS1Parser.parse(barcode)`
LookupParsed(db, code, company_id, gtin) ==
    LET by_gtin == FindByGtin(db, gtin, company_id)
    IN IF by_gtin # None THEN Info(by_gtin, "gs1_128", TRUE, "False")
       ELSE StandardSearch(db, code, company_id,
                           IF gtin # None THEN "gs1_128" ELSE "False", gtin # None)

find_by_barcode_with_info(db, text, company_id) ==
    IF text = <<>> THEN Info(None, "False", FALSE, "No barcode provided")
    ELSE LookupParsed(db, Strip(text, StrWhitespace), company_id,
                      GtinOf(parse(Strip(text, StrWhitespace))))

MaxProducts == 2
MaxBarcodes == 1

GTIN14 == Digits(<<0, 4, 0, 0, 6, 3, 8, 1, 3, 3, 3, 9, 3, 1>>)
GTIN13 == Tail(GTIN14)
\* the element string (01) and its GTIN
ScanGTIN == Digits(<<0, 1>>) \o GTIN14

\* what the scanner may deliver
Scans ==
    { <<>>, ScanGTIN, <<32>> \o ScanGTIN, ScanGTIN \o Digits(<<1, 0>>) \o <<65>>,
      GTIN13, <<65>> }

\* the company of the user, and another one
Companies == {1, 2}

ProductRows ==
    [barcode : {None, Some(ScanGTIN), Some(GTIN14), Some(GTIN13)},
     default_code : {None, Some(<<65>>)},
     company_id : {NoCompany, 2}]

BarcodeRows(product_ids) ==
    [name : {ScanGTIN, GTIN13},
     active : BOOLEAN,
     company_id : {NoCompany, 2},
     product_id : product_ids,
     barcode_type : {"code128"}]

\* the tables: up to MaxProducts products and up to MaxBarcodes additional
\* barcodes of these products
Databases ==
    UNION { [products : [1..n -> ProductRows],
             barcodes : UNION {[1..k -> BarcodeRows(1..n)] : k \in 0..MaxBarcodes}] :
            n \in 0..MaxProducts }

InitLookup ==
    /\ fn \in {"find_by_barcode", "find_by_barcode_with_info"}
    /\ fn_arg \in [barcode : Scans, company_id : {1}, db : Databases]
    /\ fn_ret = None
    /\ pc = "call"
    /\ iters = 0
    /\ records = <<>>
    /\ txns = <<>>
    /\ barcode_in = <<>>
    /\ barcode = <<>>
    /\ pos = 0
    /\ result = EmptyResult

CallFindByBarcode ==
    /\ pc = "call"
    /\ fn = "find_by_barcode"
    /\ fn_ret' = Some(find_by_barcode(fn_arg.db, fn_arg.barcode, fn_arg.company_id))
    /\ pc' = "done"
    /\ UNCHANGED <<barcode_in, barcode, pos, result, fn, fn_arg, iters, records, txns>>

CallFindByBarcodeWithInfo ==
    /\ pc = "call"
    /\ fn = "find_by_barcode_with_info"
    /\ fn_ret' = Some(find_by_barcode_with_info(fn_arg.db, fn_arg.barcode,
                                                fn_arg.company_id))
    /\ pc' = "done"
    /\ UNCHANGED <<barcode_in, barcode, pos, result, fn, fn_arg, iters, records, txns>>

NextLookup == CallFindByBarcode \/ CallFindByBarcodeWithInfo

SpecLookup == InitLookup /\ [][NextLookup]_vars

\* the product the standard exact-match lookup of the scanned string finds
ExactMatch == find_by_barcode(fn_arg.db, fn_arg.barcode, fn_arg.company_id)

\* C14: the exact-match lookup of the scanned string comes first: when some
\* product matches the scanned string exactly, that product is returned,
\* whatever product matches the embedded GTIN.
C14_ExactFirst ==
    (fn = "find_by_barcode_with_info" /\ pc = "done" /\ ExactMatch # None) =>
        fn_ret[1].product = ExactMatch

\* the scan '0104006381333931' with that text as the barcode of product 1 and
\* its GTIN as the barcode of product 2
C14_Example ==
    LET db == [products |-> <<[barcode |-> Some(ScanGTIN), default_code |-> None,
                               company_id |-> NoCompany],
                              [barcode |-> Some(GTIN14), default_code |-> None,
                               company_id |-> NoCompany]>>,
               barcodes |-> <<>>]
    IN /\ find_by_barcode(db, ScanGTIN, 1) = Some(1)
       /\ find_by_barcode_with_info(db, ScanGTIN, 1).product = Some(2)

----------------------------------------------------------------------------
(* product.barcode: the stored rows and the two uniqueness constraints *)

MaxRecords == 2
MaxTxns == 2

\* barcode values 'X' and 'Y'
Names == {<<88>>, <<89>>}

\* no company, or the company 1
RowCompanies == {NoCompany, 1}

Rows == [name : Names, company_id : RowCompanies, active : BOOLEAN]

Idle == [phase |-> "idle"]

\* the rows a transaction sees: its snapshot with its own write applied;
\* id 0 stands for the row an INSERT adds
Written(rows, id, row) ==
    IF id = 0 THEN Append(rows, row) ELSE [rows EXCEPT ![id] = row]

\* self.search(domain, limit=1) of the constraint: the model has an `active`
\* field and the domain has no 'active' term, so archived rows are left out
Duplicates(rows, id) ==
    {j \in 1..Len(rows) :
        /\ rows[j].name = rows[id].name
        /\ rows[j].company_id = NoCompany
        /\ j # id
        /\ rows[j].active}

\* _check_barcode_unique_global on the record id: TRUE when it does not raise
check_barcode_unique_global(rows, id) ==
    rows[id].company_id # NoCompany \/ Duplicates(rows, id) = {}

\* UNIQUE(name, company_id) for the row id: a NULL company_id equals nothing
barcode_company_unique(rows, id) ==
    \/ rows[id].company_id = NoCompany
    \/ \A j \in 1..Len(rows) :
           j = id \/ rows[j].name # rows[id].name
                  \/ rows[j].company_id # rows[id].company_id

InitStore ==
    /\ records = <<>>
    /\ txns = [t \in 1..MaxTxns |-> Idle]
    /\ fn = "product.barcode"
    /\ fn_arg = None
    /\ fn_ret = None
    /\ pc = "call"
    /\ iters = 0
    /\ barcode_in = <<>>
    /\ barcode = <<>>
    /\ pos = 0
    /\ result = EmptyResult

\* a transaction takes its snapshot, writes the row and runs the Python
\* constraints of the fields written; `constrained` tells whether name or
\* company_id is among them
Write(t, id, row, constrained) ==
    LET seen == Written(records, id, row)
        at == IF id = 0 THEN Len(seen) ELSE id
    IN /\ fn = "product.barcode"
       /\ txns[t] = Idle
       /\ constrained => check_barcode_unique_global(seen, at)
       /\ txns' = [txns EXCEPT ![t] =
                       [phase |-> "written", id |-> id, row |-> row,
                        before |-> IF id = 0 THEN None ELSE Some(records[id])]]
       /\ UNCHANGED <<records, barcode_in, barcode, pos, result, pc, fn, fn_arg,
                      fn_ret, iters>>

\* create({'name': ..., 'company_id': ...}); active defaults to True
Create(t) ==
    \E name \in Names : \E company_id \in RowCompanies :
        /\ Len(records) < MaxRecords
        /\ Write(t, 0, [name |-> name, company_id |-> company_id, active |-> TRUE], TRUE)

\* write({'name': ...})
Rename(t) ==
    \E id \in 1..Len(records) : \E name \in Names :
        /\ name # records[id].name
        /\ Write(t, id, [records[id] EXCEPT !.name = name], TRUE)

\* write({'company_id': ...})
ChangeCompany(t) ==
    \E id \in 1..Len(records) : \E company_id \in RowCompanies :
        /\ company_id # records[id].company_id
        /\ Write(t, id, [records[id] EXCEPT !.company_id = company_id], TRUE)

\* write({'active': False}): neither constraint method is triggered
Archive(t) ==
    \E id \in 1..Len(records) :
        /\ records[id].active
        /\ Write(t, id, [records[id] EXCEPT !.active = FALSE], FALSE)

\* write({'active': True}): neither constraint method is triggered
Unarchive(t) ==
    \E id \in 1..Len(records) :
        /\ ~records[id].active
        /\ Write(t, id, [records[id] EXCEPT !.active = TRUE], FALSE)

\* the row was not changed by a transaction committed since the snapshot,
\* there is room for the row, and the UNIQUE index accepts it
CanCommit(t) ==
    LET w == txns[t]
        stored == Written(records, w.id, w.row)
        at == IF w.id = 0 THEN Len(stored) ELSE w.id
    IN /\ IF w.id = 0 THEN Len(records) < MaxRecords
          ELSE Some(records[w.id]) = w.before
       /\ barcode_company_unique(stored, at)

Commit(t) ==
    /\ fn = "product.barcode"
    /\ txns[t].phase = "written"
    /\ CanCommit(t)
    /\ records' = Written(records, txns[t].id, txns[t].row)
    /\ txns' = [txns EXCEPT ![t] = Idle]
    /\ UNCHANGED <<barcode_in, barcode, pos, result, pc, fn, fn_arg, fn_ret, iters>>

\* the database refuses the transaction
Rollback(t) ==
    /\ fn = "product.barcode"
    /\ txns[t].phase = "written"
    /\ ~CanCommit(t)
    /\ txns' = [txns EXCEPT ![t] = Idle]
    /\ UNCHANGED <<records, barcode_in, barcode, pos, result, pc, fn, fn_arg,
                   fn_ret, iters>>

NextStore ==
    \E t \in 1..MaxTxns :
        \/ Create(t)
        \/ Rename(t)
        \/ ChangeCompany(t)
        \/ Archive(t)
        \/ Unarchive(t)
        \/ Commit(t)
        \/ Rollback(t)

SpecStore == InitStore /\ [][NextStore]_vars

\* C17: global barcodes are unique: no two stored records with an empty
\* company_id have the same name, after any sequence and any interleaving of
\* create, rename, company change, archive and unarchive that passed
\* _check_barcode_unique_global and UNIQUE(name, company_id).
C17_GlobalUnique ==
    \A i, j \in 1..Len(records) :
        (i # j /\ records[i].company_id = NoCompany /\ records[j].company_id = NoCompany)
            => records[i].name # records[j].name

\* the same with archived records left out
C17_ActiveGlobalUnique ==
    \A i, j \in 1..Len(records) :
        (/\ i # j
         /\ records[i].company_id = NoCompany /\ records[j].company_id = NoCompany
         /\ records[i].active /\ records[j].active)
            => records[i].name # records[j].name

====
